---- MODULE Spec2Model ----
(***************************************************************************)
(* Model of Calazar_PM.py: the password analyzer (calc_entropy,           *)
(* analyze_password), the suggestion generator (generate_suggestion) and   *)
(* the curses session loop (main).                                         *)
(*                                                                         *)
(* A Python str is modelled as a sequence of one-character strings.        *)
(* Entropy values are kept in hundredths of a bit (72.1 bits = 7210).      *)
(***************************************************************************)
EXTENDS Integers, Sequences, FiniteSets, TLC

\* ------------------------------------------------------------------ bounds
\* Ticks of the session loop that are explored (frame_idx counts them).
MaxTicks == 4
\* Longest candidate string typed in a session.
MaxLen == 3
\* Longest string over CharSample handed to analyze_password on its own.
MaxPwLen == 3
\* Largest length requested from generate_suggestion on its own.
MaxGenLen == 5
\* random.choice outcomes explored: every ChoiceStride-th index, and the last.
ChoiceStride == 26

\* ------------------------------------------------------- characters, strings
lowers == << "a","b","c","d","e","f","g","h","i","j","k","l","m",
             "n","o","p","q","r","s","t","u","v","w","x","y","z" >>

\* lowers.upper()
uppers == << "A","B","C","D","E","F","G","H","I","J","K","L","M",
             "N","O","P","Q","R","S","T","U","V","W","X","Y","Z" >>

digits == << "0","1","2","3","4","5","6","7","8","9" >>

symbols == << "!","@","#","$","%","^","&","*","(",")","-","_","=",
              "+","[","]","{","}",";",":",",",".","<",">","/","?" >>

allchars == lowers \o uppers \o digits \o symbols

\* The characters with codes 32..126, in code order ("grave" stands for the
\* grave accent, code 96, which cannot be written in a string here).
PRINTABLE == << " ","!","\"","#","$","%","&","'","(",")","*","+",",","-",".","/",
                "0","1","2","3","4","5","6","7","8","9",":",";","<","=",">","?",
                "@","A","B","C","D","E","F","G","H","I","J","K","L","M","N","O",
                "P","Q","R","S","T","U","V","W","X","Y","Z","[","\\","]","^","_",
                "grave","a","b","c","d","e","f","g","h","i","j","k","l","m","n","o",
                "p","q","r","s","t","u","v","w","x","y","z","{","|","}","~" >>

Range(s) == { s[i] : i \in DOMAIN s }

\* chr(k) for a code k in 32..126
chr(k) == PRINTABLE[k - 31]

\* ord(c) for a printable character c
ord(c) == 31 + CHOOSE i \in DOMAIN PRINTABLE : PRINTABLE[i] = c

islower(c) == c \in Range(lowers)
isupper(c) == c \in Range(uppers)
isdigit(c) == c \in Range(digits)
isalnum(c) == islower(c) \/ isupper(c) \/ isdigit(c)

\* str.lower() on one character, and on a string
lower_char(c) == IF isupper(c) THEN lowers[CHOOSE i \in DOMAIN uppers : uppers[i] = c] ELSE c
lower(pw) == [ i \in DOMAIN pw |-> lower_char(pw[i]) ]

upper_char(c) == IF islower(c) THEN uppers[CHOOSE i \in DOMAIN lowers : lowers[i] = c] ELSE c

any_lower(pw) == \E i \in DOMAIN pw : islower(pw[i])
any_upper(pw) == \E i \in DOMAIN pw : isupper(pw[i])
any_digit(pw) == \E i \in DOMAIN pw : isdigit(pw[i])
any_symbol(pw) == \E i \in DOMAIN pw : ~ isalnum(pw[i])

COMMONS == { << "1","2","3","4","5","6" >>,
             << "p","a","s","s","w","o","r","d" >>,
             << "1","2","3","4","5","6","7","8","9" >>,
             << "q","w","e","r","t","y" >>,
             << "a","b","c","1","2","3" >>,
             << "1","1","1","1","1","1" >>,
             << "1","2","3","1","2","3" >>,
             << "i","l","o","v","e","y","o","u" >>,
             << "p","a","s","s","w","o","r","d","1" >>,
             << "a","d","m","i","n" >>,
             << "l","e","t","m","e","i","n" >> }

\* ------------------------------------------------------------ calc_entropy
\* round(log2(pool) * 10^6) for the pool sizes calc_entropy can form
Log2Micro(pool) ==
    CASE pool = 10 -> 3321928
      [] pool = 26 -> 4700440
      [] pool = 32 -> 5000000
      [] pool = 36 -> 5169925
      [] pool = 42 -> 5392317
      [] pool = 52 -> 5700440
      [] pool = 58 -> 5857981
      [] pool = 62 -> 5954196
      [] pool = 68 -> 6087463
      [] pool = 84 -> 6392317
      [] pool = 94 -> 6554589

pool_size(pw) ==
      (IF any_lower(pw) THEN 26 ELSE 0)
    + (IF any_upper(pw) THEN 26 ELSE 0)
    + (IF any_digit(pw) THEN 10 ELSE 0)
    + (IF any_symbol(pw) THEN 32 ELSE 0)

\* The entropy with the logarithm divided by the length.
calc_entropy_divided(pw) ==
    IF pool_size(pw) = 0 \/ Len(pw) = 0
    THEN 0
    ELSE ((Log2Micro(pool_size(pw)) \div Len(pw)) + 5000) \div 10000

\* round(len(pw) * log2(pool), 2), in hundredths of a bit.  The fixed-point
\* product agrees with the float result for every length up to 40.
calc_entropy(pw) ==
    IF pool_size(pw) = 0 \/ Len(pw) = 0
    THEN 0
    ELSE (Len(pw) * Log2Micro(pool_size(pw)) + 5000) \div 10000

\* --------------------------------------------------------- analyze_password
SugType == "Type a password"
SugUnique == "Use a unique password not in common lists"
SugLonger == "Increase length"
SugMixed == "Add symbols and mixed case"
SugLen12 == "Increase length to 12+ characters"
SugUpper == "Add uppercase letters (A-Z)"
SugLower == "Add lowercase letters (a-z)"
SugDigit == "Add digits (0-9)"
SugSymbol == "Include symbols (e.g. ! @ # $ %)"
SugSpace == "Avoid spaces in passwords (or use predictable separators carefully)"
\* (the source separates the two halves with a dash wider than "-")
SugPassphrase == "Looks good - consider using a passphrase for extra entropy"

B2N(b) == IF b THEN 1 ELSE 0

\* The score with the first length test written len(pw) > 8.
score_of_gt8(pw) ==
      B2N(Len(pw) > 8)
    + B2N(Len(pw) >= 12)
    + B2N(any_lower(pw))
    + B2N(any_upper(pw))
    + B2N(any_digit(pw))
    + B2N(any_symbol(pw))
    + B2N(calc_entropy(pw) > 6000)

\* The score with the entropy point given above 80 bits.
score_of_80bits(pw) ==
      B2N(Len(pw) >= 8)
    + B2N(Len(pw) >= 12)
    + B2N(any_lower(pw))
    + B2N(any_upper(pw))
    + B2N(any_digit(pw))
    + B2N(any_symbol(pw))
    + B2N(calc_entropy(pw) > 8000)

score_of(pw) ==
      B2N(Len(pw) >= 8)
    + B2N(Len(pw) >= 12)
    + B2N(any_lower(pw))
    + B2N(any_upper(pw))
    + B2N(any_digit(pw))
    + B2N(any_symbol(pw))
    + B2N(calc_entropy(pw) > 6000)

\* The rating with the thresholds tested with < instead of <=.
rating_of_strict(score) ==
    IF score < 2 THEN "Weak"
    ELSE IF score < 4 THEN "Medium"
    ELSE IF score < 6 THEN "Strong"
    ELSE "Very Strong"

rating_of(score) ==
    IF score <= 2 THEN "Weak"
    ELSE IF score <= 4 THEN "Medium"
    ELSE IF score <= 6 THEN "Strong"
    ELSE "Very Strong"

Opt(b, s) == IF b THEN << s >> ELSE << >>

\* The suggestions without the fallback.
suggestions_of_no_fallback(pw) ==
       Opt(Len(pw) < 12, SugLen12)
    \o Opt(~ any_upper(pw), SugUpper)
    \o Opt(~ any_lower(pw), SugLower)
    \o Opt(~ any_digit(pw), SugDigit)
    \o Opt(~ any_symbol(pw), SugSymbol)
    \o Opt(" " \in Range(pw), SugSpace)

\* The suggestions with the lowercase hint added before the uppercase hint.
suggestions_of_swapped(pw) ==
    LET hints ==    Opt(Len(pw) < 12, SugLen12)
                 \o Opt(~ any_lower(pw), SugLower)
                 \o Opt(~ any_upper(pw), SugUpper)
                 \o Opt(~ any_digit(pw), SugDigit)
                 \o Opt(~ any_symbol(pw), SugSymbol)
                 \o Opt(" " \in Range(pw), SugSpace)
    IN  IF hints = << >> THEN << SugPassphrase >> ELSE hints

suggestions_of(pw) ==
    LET hints ==    Opt(Len(pw) < 12, SugLen12)
                 \o Opt(~ any_upper(pw), SugUpper)
                 \o Opt(~ any_lower(pw), SugLower)
                 \o Opt(~ any_digit(pw), SugDigit)
                 \o Opt(~ any_symbol(pw), SugSymbol)
                 \o Opt(" " \in Range(pw), SugSpace)
    IN  IF hints = << >> THEN << SugPassphrase >> ELSE hints

\* Same as analyze_password, with the membership test on pw itself.
analyze_password_exact(pw) ==
    IF pw = << >>
    THEN [ score |-> 0, entropy |-> 0, rating |-> "Empty", suggestions |-> << SugType >> ]
    ELSE IF pw \in COMMONS
    THEN [ score |-> 0, entropy |-> calc_entropy(pw), rating |-> "Very Weak (common)",
           suggestions |-> << SugUnique, SugLonger, SugMixed >> ]
    ELSE [ score |-> score_of(pw), entropy |-> calc_entropy(pw),
           rating |-> rating_of(score_of(pw)), suggestions |-> suggestions_of(pw) ]

analyze_password(pw) ==
    IF pw = << >>
    THEN [ score |-> 0, entropy |-> 0, rating |-> "Empty", suggestions |-> << SugType >> ]
    ELSE IF lower(pw) \in COMMONS
    THEN [ score |-> 0, entropy |-> calc_entropy(pw), rating |-> "Very Weak (common)",
           suggestions |-> << SugUnique, SugLonger, SugMixed >> ]
    ELSE [ score |-> score_of(pw), entropy |-> calc_entropy(pw),
           rating |-> rating_of(score_of(pw)), suggestions |-> suggestions_of(pw) ]

\* ------------------------------------------------------ generate_suggestion
\* random.choice(seq) with the drawn index r in 1..Len(seq)
choice(seq, r) == seq[r]

\* x with the elements at positions i and j exchanged
Swap(x, i, j) == [ x EXCEPT ![i] = x[j], ![j] = x[i] ]

\* random.shuffle(x): for i from the last position down to the second, exchange
\* x[i] with x[js[i]], where js[i] in 1..i is the index drawn for position i
RECURSIVE shuffle(_, _, _)
shuffle(x, js, i) == IF i < 2 THEN x ELSE shuffle(Swap(x, i, js[i]), js, i - 1)

\* while len(pwd) < length: pwd.append(random.choice(allchars)); rs[k] is the
\* index drawn for the character placed at position k
RECURSIVE fill(_, _, _)
fill(pwd, length, rs) ==
    IF Len(pwd) < length
    THEN fill(Append(pwd, choice(allchars, rs[Len(pwd) + 1])), length, rs)
    ELSE pwd

\* Number of characters generate_suggestion(length) assembles
gen_size(length) == IF length > 4 THEN length ELSE 4

\* generate_suggestion with the digit left out of the four guaranteed picks.
generate_suggestion_no_digit(length, rnd) ==
    LET pwd == << choice(lowers, rnd.rs[1]), choice(uppers, rnd.rs[2]),
                  choice(symbols, rnd.rs[4]) >>
        all == fill(pwd, length, rnd.rs)
    IN  [ raised |-> FALSE, value |-> shuffle(all, rnd.js, Len(all)) ]

\* generate_suggestion(length) under the random outcomes rnd: rnd.rs are the
\* indices random.choice draws, rnd.js those random.shuffle draws.  The result
\* records whether the call raised and the string it returned.
generate_suggestion(length, rnd) ==
    LET pwd == << choice(lowers, rnd.rs[1]), choice(uppers, rnd.rs[2]),
                  choice(digits, rnd.rs[3]), choice(symbols, rnd.rs[4]) >>
        all == fill(pwd, length, rnd.rs)
    IN  [ raised |-> FALSE, value |-> shuffle(all, rnd.js, Len(all)) ]

\* Indices of a sequence of n elements that random.choice is explored with
ChoiceSample(n) == { i \in 1..n : (i - 1) % ChoiceStride = 0 \/ i = n }

\* Index the k-th random.choice call may draw
ChoiceAt(k) ==
    CASE k = 1 -> ChoiceSample(Len(lowers))
      [] k = 2 -> ChoiceSample(Len(uppers))
      [] k = 3 -> ChoiceSample(Len(digits))
      [] k = 4 -> ChoiceSample(Len(symbols))
      [] OTHER -> ChoiceSample(Len(allchars))

\* Sequences of n choice indices, the k-th one drawn from ChoiceAt(k)
RECURSIVE ChoiceSeqs(_)
ChoiceSeqs(n) ==
    IF n = 0 THEN { << >> }
    ELSE { Append(r, x) : r \in ChoiceSeqs(n - 1), x \in ChoiceAt(n) }

\* Sequences of n shuffle indices, the i-th one in 1..i
RECURSIVE ShuffleSeqs(_)
ShuffleSeqs(n) ==
    IF n = 0 THEN { << >> }
    ELSE { Append(j, x) : j \in ShuffleSeqs(n - 1), x \in 1..n }

\* The random outcomes of one generate_suggestion(length) call: every sampled
\* choice and every outcome of the shuffle.
RandomOutcomes(length) ==
    { [ rs |-> r, js |-> j ] :
        r \in ChoiceSeqs(gen_size(length)), j \in ShuffleSeqs(gen_size(length)) }

\* ------------------------------------------------------------- curses model
KEY_ENTER == 343
KEY_BACKSPACE == 263
\* getch() returns -1 when the 80 ms poll times out
NO_KEY == -1
\* height of the input box
box_h == 7

EnterKeys == { KEY_ENTER, 10, 13 }
BackspaceKeys == { KEY_BACKSPACE, 127, 8 }
SuggestKeys == { ord("s"), ord("S") }

\* Key codes getch() is explored with: the poll timeout, every enter, backspace
\* and suggest code, printable characters of each class with both ends of the
\* range 32..126, and keys that no branch handles.
PrintableSample == { 32, ord("1"), ord("A"), ord("a"), 126 }
OtherSample == { 27, 410 }
KeySample == { NO_KEY } \cup EnterKeys \cup BackspaceKeys \cup SuggestKeys
                \cup PrintableSample \cup OtherSample

\* Terminal sizes << max_y, max_x >> getmaxyx() is explored with: two that hold
\* the input box (the second has no row for the Enter message), one too narrow
\* and one too short for the box.
TermSizes == { << 24, 80 >>, << 7, 61 >>, << 24, 40 >>, << 5, 80 >> }

Max(a, b) == IF a > b THEN a ELSE b
Min(a, b) == IF a < b THEN a ELSE b

\* stdscr.addch(y, x, ch) returns normally: the cell is in the window and is
\* not the lower right cell, after which the cursor cannot advance.
AddchOk(y, x, my, mx) ==
    /\ y \in 0..(my - 1)
    /\ x \in 0..(mx - 1)
    /\ ~ (y = my - 1 /\ x = mx - 1)

\* stdscr.addstr(y, x, text) with len(text) = n returns normally.
AddstrOk(y, x, n, my, mx) ==
    /\ y \in 0..(my - 1)
    /\ x \in 0..(mx - 1)
    /\ y * mx + x + n < my * mx

\* draw_input_box(stdscr, center_y, center_x, width, height) returns normally,
\* that is, none of its addch and addstr calls raises curses.error.
draw_input_box(center_y, center_x, width, height, my, mx) ==
    LET top == center_y - (height \div 2)
        left == center_x - (width \div 2)
    IN  /\ \A dx \in 0..(width - 1) :
              /\ AddchOk(top, left + dx, my, mx)
              /\ AddchOk(top + height - 1, left + dx, my, mx)
        /\ \A dy \in 1..(height - 2) :
              /\ AddchOk(top + dy, left, my, mx)
              /\ AddchOk(top + dy, left + width - 1, my, mx)
        /\ AddchOk(top, left, my, mx)
        /\ AddchOk(top, left + width - 1, my, mx)
        /\ AddchOk(top + height - 1, left, my, mx)
        /\ AddchOk(top + height - 1, left + width - 1, my, mx)
        /\ \A i \in 1..(height - 2) : AddstrOk(top + i, left + 1, width - 2, my, mx)

\* box_w = max(60, min(80, max_x - 10))
box_w(mx) == Max(60, Min(80, mx - 10))

\* "*" * len(display_pwd), cut to box_w - 6 characters
mask_of(pw, mx) == [ i \in 1..Min(Len(pw), box_w(mx) - 6) |-> "*" ]

\* len(str(e)) for a float e >= 0 given in hundredths
RECURSIVE DecLen(_)
DecLen(n) == IF n < 10 THEN 1 ELSE 1 + DecLen(n \div 10)
FloatLen(h) == DecLen(h \div 100) + 1 + (IF h % 10 = 0 THEN 1 ELSE 2)

\* len(msg) of the message built on Enter
MsgLen(a) == 14 + Len(a.rating) + 11 + FloatLen(a.entropy) + 6

\* -------------------------------------------------------------------- state
VARIABLES
    pc,              \* position of main: "render", "getch", "key", "pause",
                     \* "finally", "exited"
    input_buffer,    \* the candidate string
    suggestion_pwd,  \* the suggested password, << >> while there is none
    key,             \* the key code getch() returned last
    frame_idx,       \* animation counters
    dragon_x,
    max_y,           \* terminal size read by getmaxyx()
    max_x,
    display_pwd,     \* "".join(input_buffer) as taken by the last render
    display_mask,    \* the asterisks drawn for it
    analysis,        \* analyze_password(display_pwd) of the last render
    msg,             \* the Enter confirmation on the screen, NoMsg if none
    cursor_visible,  \* terminal state set by curs_set and nodelay
    nodelay,
    exit_cause,      \* "none", "interrupt" (KeyboardInterrupt), "error" (curses.error)
    exit_code,       \* exit status of the process, -1 while it runs
    PYPERCLIP,       \* whether the import of pyperclip succeeded
    clipboard,       \* what pyperclip.copy stored last
    fn_pc,           \* a function called on its own: "idle", "call", "done"
    fn_arg,          \* its argument
    fn_ret           \* its result

vars == << pc, input_buffer, suggestion_pwd, key, frame_idx, dragon_x, max_y, max_x,
           display_pwd, display_mask, analysis, msg, cursor_visible, nodelay,
           exit_cause, exit_code, PYPERCLIP, clipboard, fn_pc, fn_arg, fn_ret >>

session_vars == << pc, input_buffer, suggestion_pwd, key, frame_idx, dragon_x, max_y,
                   max_x, display_pwd, display_mask, analysis, msg, cursor_visible,
                   nodelay, exit_cause, exit_code, PYPERCLIP, clipboard >>

fn_vars == << fn_pc, fn_arg, fn_ret >>

NoMsg == [ rating |-> "", entropy |-> -1 ]
NoAnalysis == [ score |-> -1, entropy |-> -1, rating |-> "", suggestions |-> << >> ]
NoRet == [ raised |-> FALSE, value |-> << >> ]

LoopPcs == { "render", "getch", "key", "pause" }

\* The session state of the loop: Running until an exception leaves the loop.
SessionState == IF pc \in LoopPcs THEN "Running" ELSE "Exiting"

\* main up to the loop: terminal set up, empty candidate, no suggestion
SessionInit ==
    /\ pc = "render"
    /\ input_buffer = << >>
    /\ suggestion_pwd = << >>
    /\ key = NO_KEY
    /\ frame_idx = 0
    /\ dragon_x = -20
    /\ \E sz \in TermSizes : max_y = sz[1] /\ max_x = sz[2]
    /\ display_pwd = << >>
    /\ display_mask = << >>
    /\ analysis = NoAnalysis
    /\ msg = NoMsg
    /\ cursor_visible = FALSE
    /\ nodelay = TRUE
    /\ exit_cause = "none"
    /\ exit_code = -1
    /\ PYPERCLIP \in BOOLEAN
    /\ clipboard = << >>

Init ==
    /\ SessionInit
    /\ fn_pc = "idle"
    /\ fn_arg = << >>
    /\ fn_ret = NoRet

\* ----------------------------------------------------------- the loop body
\* The render analyzing the candidate string in every other tick only.
RenderEveryOther ==
    /\ pc = "render"
    /\ frame_idx < MaxTicks
    /\ \E sz \in TermSizes :
         LET my == sz[1]
             mx == sz[2]
         IN  /\ max_y' = my
             /\ max_x' = mx
             /\ frame_idx' = frame_idx + 1
             /\ dragon_x' = IF dragon_x + 2 > mx THEN -7 - 5 ELSE dragon_x + 2
             /\ msg' = NoMsg
             /\ IF draw_input_box(my \div 2, mx \div 2, box_w(mx), box_h, my, mx)
                THEN /\ display_pwd' = input_buffer
                     /\ display_mask' = mask_of(input_buffer, mx)
                     /\ analysis' = IF frame_idx % 2 = 1 THEN analysis ELSE analyze_password(input_buffer)
                     /\ pc' = "getch"
                     /\ UNCHANGED exit_cause
                ELSE /\ pc' = "finally"
                     /\ exit_cause' = "error"
                     /\ UNCHANGED << display_pwd, display_mask, analysis >>
    /\ UNCHANGED << input_buffer, suggestion_pwd, key, cursor_visible, nodelay,
                    exit_code, PYPERCLIP, clipboard >>
    /\ UNCHANGED fn_vars

\* The render analyzing the string it drew in the tick before.
RenderStale ==
    /\ pc = "render"
    /\ frame_idx < MaxTicks
    /\ \E sz \in TermSizes :
         LET my == sz[1]
             mx == sz[2]
         IN  /\ max_y' = my
             /\ max_x' = mx
             /\ frame_idx' = frame_idx + 1
             /\ dragon_x' = IF dragon_x + 2 > mx THEN -7 - 5 ELSE dragon_x + 2
             /\ msg' = NoMsg
             /\ IF draw_input_box(my \div 2, mx \div 2, box_w(mx), box_h, my, mx)
                THEN /\ display_pwd' = input_buffer
                     /\ display_mask' = mask_of(input_buffer, mx)
                     /\ analysis' = analyze_password(display_pwd)
                     /\ pc' = "getch"
                     /\ UNCHANGED exit_cause
                ELSE /\ pc' = "finally"
                     /\ exit_cause' = "error"
                     /\ UNCHANGED << display_pwd, display_mask, analysis >>
    /\ UNCHANGED << input_buffer, suggestion_pwd, key, cursor_visible, nodelay,
                    exit_code, PYPERCLIP, clipboard >>
    /\ UNCHANGED fn_vars

\* One pass from stdscr.erase() to stdscr.refresh(): the size is read, the
\* dragon advances, the box is drawn (its curses.error is not caught), and the
\* mask and the analysis of the candidate string are drawn.  Every other
\* drawing call sits in a try/except curses.error and changes no state.
Render ==
    /\ pc = "render"
    /\ frame_idx < MaxTicks
    /\ \E sz \in TermSizes :
         LET my == sz[1]
             mx == sz[2]
         IN  /\ max_y' = my
             /\ max_x' = mx
             /\ frame_idx' = frame_idx + 1
             /\ dragon_x' = IF dragon_x + 2 > mx THEN -7 - 5 ELSE dragon_x + 2
             /\ msg' = NoMsg
             /\ IF draw_input_box(my \div 2, mx \div 2, box_w(mx), box_h, my, mx)
                THEN /\ display_pwd' = input_buffer
                     /\ display_mask' = mask_of(input_buffer, mx)
                     /\ analysis' = analyze_password(input_buffer)
                     /\ pc' = "getch"
                     /\ UNCHANGED exit_cause
                ELSE /\ pc' = "finally"
                     /\ exit_cause' = "error"
                     /\ UNCHANGED << display_pwd, display_mask, analysis >>
    /\ UNCHANGED << input_buffer, suggestion_pwd, key, cursor_visible, nodelay,
                    exit_code, PYPERCLIP, clipboard >>
    /\ UNCHANGED fn_vars

\* key = stdscr.getch().  A printable key is delivered only while the
\* candidate string is shorter than MaxLen.
GetKey ==
    /\ pc = "getch"
    /\ \E k \in KeySample :
         /\ (k \in 32..126 /\ k \notin SuggestKeys) => Len(input_buffer) < MaxLen
         /\ key' = k
    /\ pc' = "key"
    /\ UNCHANGED << input_buffer, suggestion_pwd, frame_idx, dragon_x, max_y, max_x,
                    display_pwd, display_mask, analysis, msg, cursor_visible, nodelay,
                    exit_cause, exit_code, PYPERCLIP, clipboard >>
    /\ UNCHANGED fn_vars

\* KeyboardInterrupt inside getch(): break
GetchInterrupt ==
    /\ pc = "getch"
    /\ pc' = "finally"
    /\ exit_cause' = "interrupt"
    /\ UNCHANGED << input_buffer, suggestion_pwd, key, frame_idx, dragon_x, max_y, max_x,
                    display_pwd, display_mask, analysis, msg, cursor_visible, nodelay,
                    exit_code, PYPERCLIP, clipboard >>
    /\ UNCHANGED fn_vars

\* if key == -1: time.sleep(0.02); continue
NoKey ==
    /\ pc = "key"
    /\ key = NO_KEY
    /\ pc' = "render"
    /\ UNCHANGED << input_buffer, suggestion_pwd, key, frame_idx, dragon_x, max_y, max_x,
                    display_pwd, display_mask, analysis, msg, cursor_visible, nodelay,
                    exit_cause, exit_code, PYPERCLIP, clipboard >>
    /\ UNCHANGED fn_vars

\* The Enter branch submitting the candidate string: the buffer is cleared.
KeyEnterSubmit ==
    /\ pc = "key"
    /\ key # NO_KEY
    /\ key \in EnterKeys
    /\ msg' = [ rating |-> analysis.rating, entropy |-> analysis.entropy ]
    /\ input_buffer' = << >>
    /\ pc' = "pause"
    /\ UNCHANGED << suggestion_pwd, key, frame_idx, dragon_x, max_y, max_x,
                    display_pwd, display_mask, analysis, cursor_visible, nodelay,
                    exit_cause, exit_code, PYPERCLIP, clipboard >>
    /\ UNCHANGED fn_vars

\* Enter: the message is built from this tick's analysis and drawn (dropped
\* when it does not fit), then the loop sleeps.
KeyEnter ==
    /\ pc = "key"
    /\ key # NO_KEY
    /\ key \in EnterKeys
    /\ msg' = IF AddstrOk((max_y \div 2) + (box_h \div 2) + 8,
                          (max_x \div 2) - (MsgLen(analysis) \div 2),
                          MsgLen(analysis), max_y, max_x)
              THEN [ rating |-> analysis.rating, entropy |-> analysis.entropy ]
              ELSE NoMsg
    /\ pc' = "pause"
    /\ UNCHANGED << input_buffer, suggestion_pwd, key, frame_idx, dragon_x, max_y, max_x,
                    display_pwd, display_mask, analysis, cursor_visible, nodelay,
                    exit_cause, exit_code, PYPERCLIP, clipboard >>
    /\ UNCHANGED fn_vars

\* time.sleep(0.8); continue
Pause ==
    /\ pc = "pause"
    /\ pc' = "render"
    /\ UNCHANGED << input_buffer, suggestion_pwd, key, frame_idx, dragon_x, max_y, max_x,
                    display_pwd, display_mask, analysis, msg, cursor_visible, nodelay,
                    exit_cause, exit_code, PYPERCLIP, clipboard >>
    /\ UNCHANGED fn_vars

\* The backspace branch removing the first character (pop(0)).
KeyBackspaceFirst ==
    /\ pc = "key"
    /\ key # NO_KEY
    /\ key \notin EnterKeys
    /\ key \in BackspaceKeys
    /\ input_buffer' = IF input_buffer # << >> THEN Tail(input_buffer) ELSE input_buffer
    /\ pc' = "render"
    /\ UNCHANGED << suggestion_pwd, key, frame_idx, dragon_x, max_y, max_x,
                    display_pwd, display_mask, analysis, msg, cursor_visible, nodelay,
                    exit_cause, exit_code, PYPERCLIP, clipboard >>
    /\ UNCHANGED fn_vars

\* Backspace: input_buffer.pop() when the buffer is not empty
KeyBackspace ==
    /\ pc = "key"
    /\ key # NO_KEY
    /\ key \notin EnterKeys
    /\ key \in BackspaceKeys
    /\ input_buffer' = IF input_buffer # << >>
                       THEN SubSeq(input_buffer, 1, Len(input_buffer) - 1)
                       ELSE input_buffer
    /\ pc' = "render"
    /\ UNCHANGED << suggestion_pwd, key, frame_idx, dragon_x, max_y, max_x,
                    display_pwd, display_mask, analysis, msg, cursor_visible, nodelay,
                    exit_cause, exit_code, PYPERCLIP, clipboard >>
    /\ UNCHANGED fn_vars

\* Random outcomes the suggest command is explored with: every choice drawing
\* the first index and the shuffle leaving the order, or the guaranteed picks
\* drawing the tenth index, the filler the last and the shuffle exchanging
\* every position with the first.
SuggestOutcomes ==
    { [ rs |-> [ k \in 1..16 |-> IF ~ m THEN 1 ELSE IF k <= 4 THEN 10 ELSE Len(allchars) ],
        js |-> [ i \in 1..16 |-> IF m THEN 1 ELSE i ] ] : m \in BOOLEAN }

\* The suggest branch without the try/except around the clipboard copy.
KeySuggestCopyRaises ==
    /\ pc = "key"
    /\ key # NO_KEY
    /\ key \notin EnterKeys
    /\ key \notin BackspaceKeys
    /\ key \in SuggestKeys
    /\ \E rnd \in SuggestOutcomes :
         LET g == generate_suggestion(16, rnd)
         IN  IF g.raised
             THEN /\ pc' = "finally"
                  /\ exit_cause' = "error"
                  /\ UNCHANGED << suggestion_pwd, clipboard >>
             ELSE /\ suggestion_pwd' = g.value
                  /\ IF PYPERCLIP
                     THEN \E copied \in BOOLEAN :
                            /\ clipboard' = IF copied THEN g.value ELSE clipboard
                            /\ pc' = IF copied THEN "render" ELSE "finally"
                            /\ exit_cause' = IF copied THEN exit_cause ELSE "error"
                     ELSE /\ UNCHANGED clipboard
                          /\ pc' = "render"
                          /\ UNCHANGED exit_cause
    /\ UNCHANGED << input_buffer, key, frame_idx, dragon_x, max_y, max_x,
                    display_pwd, display_mask, analysis, msg, cursor_visible, nodelay,
                    exit_code, PYPERCLIP >>
    /\ UNCHANGED fn_vars

\* The suggest branch without its continue: the key is appended as well.
KeySuggestFallThrough ==
    /\ pc = "key"
    /\ key # NO_KEY
    /\ key \notin EnterKeys
    /\ key \notin BackspaceKeys
    /\ key \in SuggestKeys
    /\ \E rnd \in SuggestOutcomes :
         LET g == generate_suggestion(16, rnd)
         IN  IF g.raised
             THEN /\ pc' = "finally"
                  /\ exit_cause' = "error"
                  /\ UNCHANGED << suggestion_pwd, clipboard >>
             ELSE /\ suggestion_pwd' = g.value
                  /\ IF PYPERCLIP
                     THEN \E copied \in BOOLEAN :
                            clipboard' = IF copied THEN g.value ELSE clipboard
                     ELSE UNCHANGED clipboard
                  /\ pc' = "render"
                  /\ UNCHANGED exit_cause
    /\ input_buffer' = Append(input_buffer, chr(key))
    /\ UNCHANGED << key, frame_idx, dragon_x, max_y, max_x,
                    display_pwd, display_mask, analysis, msg, cursor_visible, nodelay,
                    exit_code, PYPERCLIP >>
    /\ UNCHANGED fn_vars

\* The suggest branch asking the generator for 12 characters.
KeySuggest12 ==
    /\ pc = "key"
    /\ key # NO_KEY
    /\ key \notin EnterKeys
    /\ key \notin BackspaceKeys
    /\ key \in SuggestKeys
    /\ \E rnd \in SuggestOutcomes :
         /\ suggestion_pwd' = generate_suggestion(12, rnd).value
         /\ clipboard' = IF PYPERCLIP THEN suggestion_pwd' ELSE clipboard
    /\ pc' = "render"
    /\ UNCHANGED << input_buffer, key, frame_idx, dragon_x, max_y, max_x,
                    display_pwd, display_mask, analysis, msg, cursor_visible, nodelay,
                    exit_cause, exit_code, PYPERCLIP >>
    /\ UNCHANGED fn_vars

\* 's' or 'S': suggestion_pwd = generate_suggestion(16), then the copy to the
\* clipboard, whose failure is swallowed.
KeySuggest ==
    /\ pc = "key"
    /\ key # NO_KEY
    /\ key \notin EnterKeys
    /\ key \notin BackspaceKeys
    /\ key \in SuggestKeys
    /\ \E rnd \in SuggestOutcomes :
         LET g == generate_suggestion(16, rnd)
         IN  IF g.raised
             THEN /\ pc' = "finally"
                  /\ exit_cause' = "error"
                  /\ UNCHANGED << suggestion_pwd, clipboard >>
             ELSE /\ suggestion_pwd' = g.value
                  /\ IF PYPERCLIP
                     THEN \E copied \in BOOLEAN :
                            clipboard' = IF copied THEN g.value ELSE clipboard
                     ELSE UNCHANGED clipboard
                  /\ pc' = "render"
                  /\ UNCHANGED exit_cause
    /\ UNCHANGED << input_buffer, key, frame_idx, dragon_x, max_y, max_x,
                    display_pwd, display_mask, analysis, msg, cursor_visible, nodelay,
                    exit_code, PYPERCLIP >>
    /\ UNCHANGED fn_vars

\* The printable branch inserting the character at the front.
KeyPrintableFront ==
    /\ pc = "key"
    /\ key # NO_KEY
    /\ key \notin EnterKeys
    /\ key \notin BackspaceKeys
    /\ key \notin SuggestKeys
    /\ 32 <= key /\ key <= 126
    /\ input_buffer' = << chr(key) >> \o input_buffer
    /\ pc' = "render"
    /\ UNCHANGED << suggestion_pwd, key, frame_idx, dragon_x, max_y, max_x,
                    display_pwd, display_mask, analysis, msg, cursor_visible, nodelay,
                    exit_cause, exit_code, PYPERCLIP, clipboard >>
    /\ UNCHANGED fn_vars

\* if 32 <= key <= 126: input_buffer.append(chr(key))
KeyPrintable ==
    /\ pc = "key"
    /\ key # NO_KEY
    /\ key \notin EnterKeys
    /\ key \notin BackspaceKeys
    /\ key \notin SuggestKeys
    /\ 32 <= key /\ key <= 126
    /\ input_buffer' = Append(input_buffer, chr(key))
    /\ pc' = "render"
    /\ UNCHANGED << suggestion_pwd, key, frame_idx, dragon_x, max_y, max_x,
                    display_pwd, display_mask, analysis, msg, cursor_visible, nodelay,
                    exit_cause, exit_code, PYPERCLIP, clipboard >>
    /\ UNCHANGED fn_vars

\* The last branch taking every remaining key for a character.
KeyOtherAppends ==
    /\ pc = "key"
    /\ key # NO_KEY
    /\ key \notin EnterKeys
    /\ key \notin BackspaceKeys
    /\ key \notin SuggestKeys
    /\ ~ (32 <= key /\ key <= 126)
    /\ pc' = "render"
    /\ input_buffer' = Append(input_buffer, "?")
    /\ UNCHANGED << suggestion_pwd, key, frame_idx, dragon_x, max_y, max_x,
                    display_pwd, display_mask, analysis, msg, cursor_visible, nodelay,
                    exit_cause, exit_code, PYPERCLIP, clipboard >>
    /\ UNCHANGED fn_vars

\* any other key falls through to the top of the loop
KeyOther ==
    /\ pc = "key"
    /\ key # NO_KEY
    /\ key \notin EnterKeys
    /\ key \notin BackspaceKeys
    /\ key \notin SuggestKeys
    /\ ~ (32 <= key /\ key <= 126)
    /\ pc' = "render"
    /\ UNCHANGED << input_buffer, suggestion_pwd, key, frame_idx, dragon_x, max_y, max_x,
                    display_pwd, display_mask, analysis, msg, cursor_visible, nodelay,
                    exit_cause, exit_code, PYPERCLIP, clipboard >>
    /\ UNCHANGED fn_vars

\* The interrupt ending the process at once, without the finally block.
InterruptExit ==
    /\ pc \in { "render", "key", "pause" }
    /\ pc' = "exited"
    /\ exit_cause' = "interrupt"
    /\ exit_code' = 130
    /\ UNCHANGED << input_buffer, suggestion_pwd, key, frame_idx, dragon_x, max_y, max_x,
                    display_pwd, display_mask, analysis, msg, cursor_visible, nodelay,
                    PYPERCLIP, clipboard >>
    /\ UNCHANGED fn_vars

\* KeyboardInterrupt anywhere else in the loop body (while rendering, while a
\* key is processed, during the Enter pause): except KeyboardInterrupt: pass
Interrupt ==
    /\ pc \in { "render", "key", "pause" }
    /\ pc' = "finally"
    /\ exit_cause' = "interrupt"
    /\ UNCHANGED << input_buffer, suggestion_pwd, key, frame_idx, dragon_x, max_y, max_x,
                    display_pwd, display_mask, analysis, msg, cursor_visible, nodelay,
                    exit_code, PYPERCLIP, clipboard >>
    /\ UNCHANGED fn_vars

\* finally: curses.curs_set(1); stdscr.nodelay(False).  Then main returns, or
\* the curses.error reaches the handler at the bottom, which exits with 1.
Finally ==
    /\ pc = "finally"
    /\ cursor_visible' = TRUE
    /\ nodelay' = FALSE
    /\ exit_code' = IF exit_cause = "error" THEN 1 ELSE 0
    /\ pc' = "exited"
    /\ UNCHANGED << input_buffer, suggestion_pwd, key, frame_idx, dragon_x, max_y, max_x,
                    display_pwd, display_mask, analysis, msg, exit_cause,
                    PYPERCLIP, clipboard >>
    /\ UNCHANGED fn_vars

Next ==
    \/ Render
    \/ GetKey
    \/ GetchInterrupt
    \/ NoKey
    \/ KeyEnter
    \/ Pause
    \/ KeyBackspace
    \/ KeySuggest
    \/ KeyPrintable
    \/ KeyOther
    \/ Interrupt
    \/ Finally

Spec == Init /\ [][Next]_vars

\* The session before its first tick, in a terminal of 24 rows and 80 columns
\* without pyperclip: where the session stays while a function is called on
\* its own.
SessionIdle ==
    /\ SessionInit
    /\ max_y = 24
    /\ max_x = 80
    /\ PYPERCLIP = FALSE

\* ------------------------------------------ analyze_password called on its own
\* Characters the arguments are built from: one of each class, a space, an s
CharSample == { "a", "A", "1", "!", " ", "s" }

RECURSIVE StringsOver(_, _)
StringsOver(S, n) ==
    IF n = 0 THEN { << >> }
    ELSE LET shorter == StringsOver(S, n - 1)
         IN  shorter \cup { Append(w, c) : w \in { v \in shorter : Len(v) = n - 1 }, c \in S }

\* Every spelling of w in upper and lower case
RECURSIVE CaseVariants(_)
CaseVariants(w) ==
    IF w = << >> THEN { << >> }
    ELSE { << c >> \o v : c \in { Head(w), upper_char(Head(w)) }, v \in CaseVariants(Tail(w)) }

\* c repeated n times, and w repeated up to n characters
Rep(c, n) == [ i \in 1..n |-> c ]
Cycle(w, n) == [ i \in 1..n |-> w[((i - 1) % Len(w)) + 1] ]

\* Tails that bring a short string to the lengths around 8 and 12: one class
\* only, all four classes, and all but one class
Paddings ==
    { Rep("a", 5), Rep("a", 9), Rep("a", 10), Rep("!", 9), Rep("1", 9),
      Cycle(<< "a", "A", "1", "!" >>, 9),
      Cycle(<< "A", "1", "!" >>, 9),
      Cycle(<< "a", "1", "!" >>, 9),
      Cycle(<< "a", "A", "!" >>, 9),
      Cycle(<< "a", "A", "1" >>, 9) }

\* Arguments analyze_password is explored with: every string over CharSample
\* up to MaxPwLen, each of them followed by each padding, every spelling of
\* every common password, and every common password with one more character
\* before or after it.
AnalyzeInputs ==
    StringsOver(CharSample, MaxPwLen)
      \cup { w \o p : w \in StringsOver(CharSample, MaxPwLen), p \in Paddings }
      \cup UNION { CaseVariants(w) : w \in COMMONS }
      \cup { Append(w, c) : w \in COMMONS, c \in CharSample }
      \cup { << c >> \o w : w \in COMMONS, c \in CharSample }

InitAnalyze ==
    /\ SessionIdle
    /\ fn_pc = "call"
    /\ fn_arg \in AnalyzeInputs
    /\ fn_ret = NoAnalysis

AnalyzeCall ==
    /\ fn_pc = "call"
    /\ fn_ret' = analyze_password(fn_arg)
    /\ fn_pc' = "done"
    /\ UNCHANGED fn_arg
    /\ UNCHANGED session_vars

NextAnalyze == AnalyzeCall

SpecAnalyze == InitAnalyze /\ [][NextAnalyze]_vars

\* --------------------------------------------- calc_entropy called on its own
\* The class of a character as calc_entropy tells them apart
class_of(c) ==
    IF islower(c) THEN "lower"
    ELSE IF isupper(c) THEN "upper"
    ELSE IF isdigit(c) THEN "digit"
    ELSE "symbol"

\* Arguments calc_entropy is explored with: a string and a character to add
\* to it, of a class the string holds or not
EntropyInputs ==
    { [ pw |-> w, c |-> x ] : w \in AnalyzeInputs, x \in CharSample }

InitEntropy ==
    /\ SessionIdle
    /\ fn_pc = "call"
    /\ fn_arg \in EntropyInputs
    /\ fn_ret = [ before |-> -1, after |-> -1 ]

\* calc_entropy(pw), then calc_entropy(pw + c)
EntropyCall ==
    /\ fn_pc = "call"
    /\ fn_ret' = [ before |-> calc_entropy(fn_arg.pw),
                   after |-> calc_entropy(Append(fn_arg.pw, fn_arg.c)) ]
    /\ fn_pc' = "done"
    /\ UNCHANGED fn_arg
    /\ UNCHANGED session_vars

NextEntropy == EntropyCall

SpecEntropy == InitEntropy /\ [][NextEntropy]_vars

\* --------------------------------------- generate_suggestion called on its own
InitGen ==
    /\ SessionIdle
    /\ fn_pc = "call"
    /\ fn_arg \in 0..MaxGenLen
    /\ fn_ret = NoRet

GenCall ==
    /\ fn_pc = "call"
    /\ \E rnd \in RandomOutcomes(fn_arg) : fn_ret' = generate_suggestion(fn_arg, rnd)
    /\ fn_pc' = "done"
    /\ UNCHANGED fn_arg
    /\ UNCHANGED session_vars

NextGen == GenCall

SpecGen == InitGen /\ [][NextGen]_vars

\* ------------------------------------------------------------------- claims
\* A step that processes the key read in this tick (not an interrupt)
KeyStep == pc = "key" /\ exit_cause' = exit_cause

\* C1: a printable key (code 32..126) that is not an enter, backspace or
\* suggest key appends exactly its character at the end of the candidate
\* string and leaves the suggested password as it was.
C1_PrintableAppends ==
    [][ ( /\ KeyStep
          /\ key \in 32..126
          /\ key \notin (EnterKeys \cup BackspaceKeys \cup SuggestKeys) )
        => ( /\ input_buffer' = Append(input_buffer, chr(key))
             /\ suggestion_pwd' = suggestion_pwd ) ]_vars

\* C1 witness: "~" (code 126) was typed after another character
C1_Witness ==
    /\ pc = "render"
    /\ key = 126
    /\ Len(input_buffer) = 2
    /\ input_buffer[1] = "a"
    /\ input_buffer[2] = "~"

\* C2: a backspace key removes exactly the last character of a non-empty
\* candidate string and changes nothing of an empty one; the session stays
\* Running and the suggested password is unchanged.
C2_BackspaceRemovesLast ==
    [][ ( KeyStep /\ key \in BackspaceKeys )
        => ( /\ input_buffer' = IF Len(input_buffer) = 0 THEN << >>
                                ELSE SubSeq(input_buffer, 1, Len(input_buffer) - 1)
             /\ suggestion_pwd' = suggestion_pwd
             /\ SessionState' = "Running" ) ]_vars

\* C2 witness: "aA" was on the screen and a backspace left "a"
C2_Witness ==
    /\ pc = "render"
    /\ key \in BackspaceKeys
    /\ display_pwd = << "a", "A" >>
    /\ input_buffer = << "a" >>

\* C3: an Enter key (KEY_ENTER, 10, 13) changes neither the candidate string
\* nor the suggested password and leads to the pause; the pause leads back to
\* the top of the loop with both unchanged, and the render that follows shows
\* the candidate string as it is.
C3_EnterKeepsCandidate ==
    [][ /\ ( KeyStep /\ key \in EnterKeys )
           => ( /\ input_buffer' = input_buffer
                /\ suggestion_pwd' = suggestion_pwd
                /\ pc' = "pause" )
        /\ ( pc = "pause" /\ exit_cause' = exit_cause )
           => ( /\ input_buffer' = input_buffer
                /\ suggestion_pwd' = suggestion_pwd
                /\ pc' = "render"
                /\ SessionState' = "Running" )
        /\ ( pc = "render" /\ pc' = "getch" )
           => ( /\ display_pwd' = input_buffer
                /\ input_buffer' = input_buffer ) ]_vars

\* C3 witness: Enter (code 13) was pressed on "a" and the next tick has drawn "a"
C3_Witness ==
    /\ pc = "getch"
    /\ key = 13
    /\ input_buffer = << "a" >>
    /\ display_pwd = << "a" >>
    /\ suggestion_pwd = << >>

\* C4: a suggest key ('s' or 'S') stores a result of generate_suggestion(16),
\* 16 characters long, as the suggested password, whatever it was before; the
\* candidate string and the analysis of it are unchanged.
C4_SuggestStoresGenerated ==
    [][ ( KeyStep /\ key \in SuggestKeys )
        => ( /\ \E rnd \in SuggestOutcomes :
                    suggestion_pwd' = generate_suggestion(16, rnd).value
             /\ Len(suggestion_pwd') = 16
             /\ input_buffer' = input_buffer
             /\ analyze_password(input_buffer') = analyze_password(input_buffer)
             /\ pc' = "render" ) ]_vars

\* C4 witness: a second suggest command replaced the suggestion of the first
\* (which the clipboard still holds) while "a" was typed
C4_Witness ==
    /\ pc = "render"
    /\ key \in SuggestKeys
    /\ input_buffer = << "a" >>
    /\ Len(suggestion_pwd) = 16
    /\ Len(clipboard) = 16
    /\ clipboard # suggestion_pwd

\* C5: an interrupt can arrive at every position of the loop and moves the
\* session from Running to Exiting; the process never exits, by any path,
\* without the cleanup of the finally block having restored the terminal.
C5_InterruptCleansUp ==
    /\ pc \in LoopPcs => ENABLED (Interrupt \/ GetchInterrupt)
    /\ exit_cause = "interrupt" => SessionState = "Exiting"
    /\ SessionState = "Running" => exit_code = -1
    /\ pc = "exited" => ( cursor_visible /\ ~ nodelay /\ exit_code # -1 )

\* C5 witness: the process exited after an interrupt during the Enter pause
C5_Witness ==
    /\ pc = "exited"
    /\ exit_cause = "interrupt"
    /\ msg # NoMsg
    /\ cursor_visible

\* C6: for every terminal size no drawing step ends the loop: the session is
\* never left because of a rendering overflow.
C6_OverflowAbsorbed ==
    exit_cause # "error"

\* C7: what a tick draws (the mask, the analysis, and the rating and entropy of
\* the Enter message) is computed from the candidate string as the previous
\* tick's key processing left it; the candidate string changes only in a key
\* processing step, which is always followed by a render before the next key.
C7_RenderSeesCandidate ==
    [][ /\ ( pc = "render" /\ pc' = "getch" )
           => ( /\ display_pwd' = input_buffer
                /\ Len(display_mask') = Len(input_buffer)
                /\ analysis' = analyze_password(input_buffer) )
        /\ ( pc \in { "getch", "key" } )
           => ( display_pwd = input_buffer /\ analysis = analyze_password(input_buffer) )
        /\ ( KeyStep /\ key \in EnterKeys /\ msg' # NoMsg )
           => ( /\ msg'.rating = analyze_password(input_buffer).rating
                /\ msg'.entropy = analyze_password(input_buffer).entropy )
        /\ ( input_buffer' # input_buffer ) => ( pc = "key" /\ pc' = "render" )
        /\ ( pc = "key" ) => ( pc' # "getch" /\ pc' # "key" ) ]_vars

\* C7 witness: the Enter message for "a1" is on the screen
C7_Witness ==
    /\ pc = "pause"
    /\ input_buffer = << "a", "1" >>
    /\ display_pwd = << "a", "1" >>
    /\ msg = [ rating |-> "Weak", entropy |-> 1034 ]

\* C8: a string whose lower-case form is a common password is rated
\* "Very Weak (common)" with score 0, whatever its length and classes.
C8_CommonIsVeryWeak ==
    ( fn_pc = "done" /\ lower(fn_arg) \in COMMONS )
    => ( fn_ret.rating = "Very Weak (common)" /\ fn_ret.score = 0 )

\* C8 witness: "PASSWORD1" (9 characters, upper case and a digit) was analyzed
C8_Witness ==
    /\ fn_pc = "done"
    /\ fn_arg = << "P", "A", "S", "S", "W", "O", "R", "D", "1" >>
    /\ fn_ret.rating = "Very Weak (common)"

\* C9: for a requested length N >= 4, whatever the random choices and the
\* shuffle, the result has length N and holds a lowercase letter, an uppercase
\* letter, a digit and a symbol of the symbol set.
C9_GeneratedHasAllClasses ==
    ( fn_pc = "done" /\ fn_arg >= 4 )
    => ( /\ ~ fn_ret.raised
         /\ Len(fn_ret.value) = fn_arg
         /\ any_lower(fn_ret.value)
         /\ any_upper(fn_ret.value)
         /\ any_digit(fn_ret.value)
         /\ \E i \in DOMAIN fn_ret.value : fn_ret.value[i] \in Range(symbols) )

\* C9 witness: a result of length 5 whose shuffle moved the digit to the front
C9_Witness ==
    /\ fn_pc = "done"
    /\ fn_arg = 5
    /\ Len(fn_ret.value) = 5
    /\ isdigit(fn_ret.value[1])
    /\ islower(fn_ret.value[5])

\* C10: a call with a requested length below 4 signals an error to its caller
\* and returns no password.
C10_ShortLengthRaises ==
    ( fn_pc = "done" /\ fn_arg < 4 ) => fn_ret.raised

\* The argument went through the scoring rules: it is neither empty nor,
\* in lower case, a common password
Scored == fn_pc = "done" /\ fn_arg # << >> /\ lower(fn_arg) \notin COMMONS

\* C11: the suggestions list of the result is non-empty for every input.
C11_SuggestionsNonEmpty ==
    fn_pc = "done" => Len(fn_ret.suggestions) >= 1

\* C11 witness: a 12-character string with all four classes and no space was
\* analyzed, for which no hint fires
C11_Witness ==
    /\ fn_pc = "done"
    /\ fn_arg = << "A", "1", "!" >> \o Cycle(<< "a", "A", "1", "!" >>, 9)
    /\ fn_ret.suggestions = << SugPassphrase >>

\* The criteria of the score that the argument satisfies
CriteriaMet ==
    { k \in 1..7 :
        \/ k = 1 /\ Len(fn_arg) >= 8
        \/ k = 2 /\ Len(fn_arg) >= 12
        \/ k = 3 /\ \E i \in DOMAIN fn_arg : fn_arg[i] \in Range(lowers)
        \/ k = 4 /\ \E i \in DOMAIN fn_arg : fn_arg[i] \in Range(uppers)
        \/ k = 5 /\ \E i \in DOMAIN fn_arg : fn_arg[i] \in Range(digits)
        \/ k = 6 /\ \E i \in DOMAIN fn_arg :
                        fn_arg[i] \notin Range(lowers) \cup Range(uppers) \cup Range(digits)
        \/ k = 7 /\ fn_ret.entropy > 6000 }

\* C12: for a non-empty, non-common input the score is the number of the seven
\* criteria that are satisfied, hence in 0..7.
C12_ScoreCountsCriteria ==
    Scored => ( fn_ret.score = Cardinality(CriteriaMet) /\ fn_ret.score \in 0..7 )

\* C12 witness: eight lowercase letters score 2 (length >= 8, lowercase)
C12_Witness ==
    /\ Scored
    /\ fn_arg = Rep("a", 8)
    /\ fn_ret.score = 2

\* C13: for a non-empty, non-common input the rating follows from the score
\* alone: 0-2 "Weak", 3-4 "Medium", 5-6 "Strong", 7 "Very Strong".
C13_RatingFromScore ==
    Scored =>
        fn_ret.rating = CASE fn_ret.score \in 0..2 -> "Weak"
                          [] fn_ret.score \in 3..4 -> "Medium"
                          [] fn_ret.score \in 5..6 -> "Strong"
                          [] fn_ret.score = 7 -> "Very Strong"
                          [] OTHER -> "none"

\* C13 witness: a string of score 4, the upper end of "Medium"
C13_Witness ==
    /\ Scored
    /\ fn_arg = << "a", "A", "1" >> \o Rep("a", 5)
    /\ fn_ret.score = 4
    /\ fn_ret.rating = "Medium"

\* The six hints in the order of their checks, and whether each check fires
HintOrder == << SugLen12, SugUpper, SugLower, SugDigit, SugSymbol, SugSpace >>

HintFires(k) ==
    CASE k = 1 -> Len(fn_arg) < 12
      [] k = 2 -> \A i \in DOMAIN fn_arg : fn_arg[i] \notin Range(uppers)
      [] k = 3 -> \A i \in DOMAIN fn_arg : fn_arg[i] \notin Range(lowers)
      [] k = 4 -> \A i \in DOMAIN fn_arg : fn_arg[i] \notin Range(digits)
      [] k = 5 -> \A i \in DOMAIN fn_arg :
                      fn_arg[i] \in Range(lowers) \cup Range(uppers) \cup Range(digits)
      [] k = 6 -> \E i \in DOMAIN fn_arg : fn_arg[i] = " "

\* C14: for a non-empty, non-common input the suggestions are exactly the
\* hints whose check fires, each once, in the order of HintOrder; they are the
\* single passphrase hint exactly when no check fires.
C14_SuggestionsAreUnmetHints ==
    Scored =>
        LET sg == fn_ret.suggestions
            fired == { k \in 1..6 : HintFires(k) }
        IN  IF fired = { }
            THEN sg = << SugPassphrase >>
            ELSE /\ Len(sg) = Cardinality(fired)
                 /\ \A k \in 1..6 : ( k \in fired <=> \E i \in DOMAIN sg : sg[i] = HintOrder[k] )
                 /\ \A i, j \in DOMAIN sg :
                        i < j => \E a, b \in 1..6 :
                                    a < b /\ sg[i] = HintOrder[a] /\ sg[j] = HintOrder[b]

\* C14 witness: a string that only misses uppercase and lowercase letters
C14_Witness ==
    /\ Scored
    /\ fn_arg = << "1", " ", "!" >> \o Rep("1", 9)
    /\ fn_ret.suggestions = << SugUpper, SugLower, SugSpace >>

\* C20: for a non-empty, non-common input the passphrase hint is given exactly
\* when the score is 7 and the string holds no space; a string of length >= 12
\* with all four classes has the entropy point too, so the passphrase hint
\* never comes with a score of 6.
C20_FallbackIffSevenNoSpace ==
    Scored =>
        /\ ( SugPassphrase \in Range(fn_ret.suggestions) )
              <=> ( fn_ret.score = 7 /\ " " \notin Range(fn_arg) )
        /\ ( Len(fn_arg) >= 12 /\ Cardinality(CriteriaMet \cap 3..6) = 4 )
              => fn_ret.entropy > 6000
        /\ ~ ( fn_ret.score = 6 /\ SugPassphrase \in Range(fn_ret.suggestions) )

\* C20 witness: a string of score 7 that holds a space gets the space hint,
\* not the passphrase hint
C20_Witness ==
    /\ Scored
    /\ fn_arg = << "a", " ", "A" >> \o Cycle(<< "a", "A", "1", "!" >>, 9)
    /\ fn_ret.score = 7
    /\ fn_ret.suggestions = << SugSpace >>

\* C15: adding a character of a class the string already holds never lowers
\* the entropy estimate.
C15_EntropyMonotone ==
    ( /\ fn_pc = "done"
      /\ \E i \in DOMAIN fn_arg.pw : class_of(fn_arg.pw[i]) = class_of(fn_arg.c) )
    => fn_ret.after >= fn_ret.before

\* C15 witness: "aA1" (17.86 bits) was extended by "A" (23.82 bits)
C15_Witness ==
    /\ fn_pc = "done"
    /\ fn_arg = [ pw |-> << "a", "A", "1" >>, c |-> "A" ]
    /\ fn_ret = [ before |-> 1786, after |-> 2382 ]

\* C16: the analysis a tick has drawn is a function of the candidate string
\* alone: whatever keys, pauses, suggestions, clipboard contents, terminal
\* sizes and animation counters led to the state, its score, entropy, rating
\* and suggestions are those the analyzer gives for the candidate string.
C16_AnalysisDependsOnCandidateOnly ==
    pc \in { "getch", "key", "pause" }
    => LET a == analyze_password(input_buffer)
       IN  /\ analysis.score = a.score
           /\ analysis.entropy = a.entropy
           /\ analysis.rating = a.rating
           /\ analysis.suggestions = a.suggestions

\* C16 witness: "a" drawn in the fourth tick in a terminal of 7 rows, with a
\* suggestion stored by the last key (typing "a" alone reaches the same
\* candidate string in the second tick)
C16_Witness ==
    /\ pc = "getch"
    /\ frame_idx = 4
    /\ max_y = 7
    /\ key \in SuggestKeys
    /\ input_buffer = << "a" >>
    /\ Len(suggestion_pwd) = 16
    /\ analysis.rating = "Weak"
    /\ analysis.entropy = 470

\* A step that handles the key read in this tick, however it ends
KeyHandled == pc = "key" /\ exit_cause' # "interrupt"

\* C17: a suggest command whose clipboard copy fails still stores the newly
\* generated password, leaves the candidate string alone and goes on to the
\* next tick without an error.
C17_ClipboardFailureHarmless ==
    [][ ( /\ KeyHandled
          /\ key \in SuggestKeys
          /\ PYPERCLIP
          /\ clipboard' = clipboard )
        => ( /\ \E rnd \in SuggestOutcomes :
                    suggestion_pwd' = generate_suggestion(16, rnd).value
             /\ input_buffer' = input_buffer
             /\ pc' = "render"
             /\ SessionState' = "Running"
             /\ exit_cause' = "none" ) ]_vars

\* C17 witness: the first suggest command found the clipboard failing: a
\* suggestion is stored and the clipboard is still empty
C17_Witness ==
    /\ pc = "render"
    /\ key \in SuggestKeys
    /\ PYPERCLIP
    /\ clipboard = << >>
    /\ Len(suggestion_pwd) = 16
    /\ input_buffer = << "a" >>
    /\ exit_cause = "none"

\* C18: a tick whose poll times out, and a tick whose key no branch handles,
\* change neither the candidate string nor the suggested password, raise no
\* error and leave the session Running.
C18_IdleAndOtherKeysChangeNothing ==
    [][ ( /\ KeyHandled
          /\ \/ key = NO_KEY
             \/ ( /\ key \notin (EnterKeys \cup BackspaceKeys \cup SuggestKeys)
                  /\ key \notin 32..126 ) )
        => ( /\ input_buffer' = input_buffer
             /\ suggestion_pwd' = suggestion_pwd
             /\ exit_cause' = "none"
             /\ pc' = "render"
             /\ SessionState' = "Running" ) ]_vars

\* C18 witness: the escape key (27) was handled with "a" typed and a
\* suggestion stored
C18_Witness ==
    /\ pc = "render"
    /\ key = 27
    /\ input_buffer = << "a" >>
    /\ Len(suggestion_pwd) = 16
    /\ exit_cause = "none"

\* C19: the candidate string holds only characters with codes 32..126 and
\* never "s" or "S"; hence it never is, in any spelling, a common password
\* that has an s in it.
C19_CandidateHasNoS ==
    /\ \A i \in DOMAIN input_buffer :
          /\ \E k \in 32..126 : input_buffer[i] = PRINTABLE[k - 31]
          /\ input_buffer[i] \notin { "s", "S" }
    /\ \A w \in COMMONS :
          ( \E i \in DOMAIN w : w[i] = "s" ) => lower(input_buffer) # w

\* C19 witness: "S" was pressed after "a" and "A" and the candidate string is
\* still "aA"
C19_Witness ==
    /\ pc = "render"
    /\ key = 83
    /\ input_buffer = << "a", "A" >>
    /\ Len(suggestion_pwd) = 16

====
